---- MODULE Spec2Model ----
(***************************************************************************)
(* State-machine model of the URL shortener (Django project               *)
(* imramesh222/urlshortner): the URL and Click tables, the request        *)
(* handlers that create, edit, delete and resolve short links, and the    *)
(* wall clock.  Every handler is cut into one step per database           *)
(* statement, so that requests served by different workers interleave     *)
(* exactly where the database lets them.  Fields that no handler below    *)
(* reads (title, description, tags, created_at, updated_at) are left out  *)
(* of the rows.                                                           *)
(***************************************************************************)
EXTENDS Integers, Sequences, FiniteSets, TLC

(***************************************************************************)
(* Bounds of the model.                                                    *)
(***************************************************************************)
MaxRequests == 2    \* requests handled over a run
MaxTime == 1        \* the clock runs over 0..MaxTime (unit: one day)

(***************************************************************************)
(* Program constants.                                                      *)
(***************************************************************************)
DefaultLength == 6
MaxAttempts == 10
CustomMaxLength == 20
CodeMaxLength == 20
MinDays == 1
MaxDays == 365

(***************************************************************************)
(* Small input domains.                                                    *)
(***************************************************************************)
Procs == {"w1", "w2"}                 \* request workers
Users == {"alice", "bob"}             \* authenticated users
Creators == {"alice"}                 \* the users who create links
Targets == {"https://example.com", "https://x.test"}
DrawChars == {"a", "b"}               \* characters random.choices may return
AlnumChars == {"a", "b", "c", "1", "2", "3"}
Times == 0..MaxTime

None == <<>>
Some(x) == <<x>>
IsSome(o) == o # <<>>
Val(o) == o[1]

\* ''.join(random.choices(chars, k=length)): the model draws codes made of
\* one repeated character of DrawChars.
Draws(length) == { [i \in 1..length |-> ch] : ch \in DrawChars }

abc123 == <<"a", "b", "c", "1", "2", "3">>
aaaaaa == [i \in 1..DefaultLength |-> "a"]
BadCode == <<"a", "b", "!", "1", "2", "3">>

\* The addresses requests come from: one that the GeoIP database holds and
\* one that it does not.
KnownIp == "203.0.113.9"
Ips == {KnownIp, "10.0.0.1"}
UserAgent == "Mozilla/5.0 (X11; Linux x86_64)"

\* The short codes a GET may name in its path.
PathCodes == Draws(DefaultLength) \cup {abc123}

(***************************************************************************)
(* The URL model (shortener/models.py).  A row is a function from the     *)
(* model's field names; a field the model does not declare is not an      *)
(* attribute of an instance.                                              *)
(***************************************************************************)
URLFields ==
    {"id", "original_url", "short_code", "expires_at", "is_custom",
     "created_by", "is_active", "password", "click_count", "last_clicked"}

\* URL(): a fresh, unsaved instance with the model's field defaults.
FieldDefault(f) ==
    CASE f = "id" -> 0
      [] f = "original_url" -> ""
      [] f = "short_code" -> <<>>
      [] f = "expires_at" -> None
      [] f = "is_custom" -> FALSE
      [] f = "created_by" -> ""
      [] f = "is_active" -> TRUE
      [] f = "password" -> ""
      [] f = "click_count" -> 0
      [] f = "last_clicked" -> None
      [] OTHER -> FALSE

NewURL == [f \in URLFields |-> FieldDefault(f)]

HasAttr(inst, name) == name \in DOMAIN inst

VARIABLES
    urls,       \* the URL table: a set of rows
    clicks,     \* the Click table: a set of rows
    nextUrlId,  \* the URL table's AUTOINCREMENT counter
    nextClickId,\* the Click table's AUTOINCREMENT counter
    now,        \* timezone.now()
    pc,         \* pc[w]: where worker w is in its handler
    req,        \* req[w]: the request's inputs and the handler's locals
    resp,       \* the response sent last
    started,    \* the number of requests handled so far
    oneTimeAsked\* ids of the links whose creator ticked "One-time link"

vars == <<urls, clicks, nextUrlId, nextClickId, now, pc, req, resp, started, oneTimeAsked>>

db == <<urls, clicks, nextUrlId, nextClickId>>

(***************************************************************************)
(* Requests and responses.                                                 *)
(***************************************************************************)
NoInst == [id |-> 0]

NoReq ==
    [op |-> "none", user |-> "", code |-> <<>>, target |-> "", days |-> None,
     one_time |-> FALSE, password |-> "", is_active |-> TRUE,
     expires_at |-> None, pk |-> 0, inst |-> NoInst, cleaned |-> <<>>,
     length |-> 0, attempts |-> 0, errors |-> {}]

NoResp ==
    [op |-> "none", kind |-> "none", status |-> 0, location |-> "",
     code |-> <<>>, id |-> 0]

\* The response to request r: its outcome, HTTP status, redirect location,
\* and the link (short code, id) it is about.
Response(r, kind, status, location, code, id) ==
    [op |-> r.op, kind |-> kind, status |-> status, location |-> location,
     code |-> code, id |-> id]

\* An uncaught exception: Django answers 500.
Crash(r, exc) == Response(r, exc, 500, "", r.code, r.inst.id)

\* raise Http404 / get_object_or_404
NotFound(r) == Response(r, "NotFound", 404, "", r.code, r.pk)

(***************************************************************************)
(* Queries and statements on the tables.                                   *)
(***************************************************************************)
\* A query that only sees the active rows.
ActiveCodeExists(code) == \E u \in urls : u.short_code = code /\ u.is_active

\* URL.objects.filter(short_code=code).exists()
CodeExists(code) == \E u \in urls : u.short_code = code

RowsById(id) == { u \in urls : u.id = id }

\* A constraint that only looks at the active rows.
UniqueAmongActive(id, code) ==
    \A u \in urls : (u.short_code = code /\ u.is_active) => u.id = id

\* The UNIQUE constraint on short_code: may a row with this id and code be
\* written?
UniqueOk(id, code) == \A u \in urls : u.short_code = code => u.id = id

\* Model.save() of a saved instance: UPDATE of every field WHERE id = pk,
\* and an INSERT under the same pk when no row was updated.
SavedTable(inst) == (urls \ RowsById(inst.id)) \cup {inst}

\* A save() that writes every column of the instance.
SavedAllColumns(inst, fields) == SavedTable(inst)

\* save(update_fields=[...]): UPDATE of the named fields WHERE id = pk.
UpdatedTable(inst, fields) ==
    { IF u.id = inst.id
      THEN [f \in DOMAIN u |-> IF f \in fields THEN inst[f] ELSE u[f]]
      ELSE u : u \in urls }

\* The row that create_short_url stores for a form without password and
\* expiry when generate_short_code draws "aaaaaa".
FirstLink ==
    [NewURL EXCEPT !.id = 1, !.original_url = "https://x.test",
                   !.short_code = aaaaaa, !.created_by = "alice"]

\* A run starts with an empty URL table, or with one link that alice has
\* created through the form, with "One-time link" ticked or not.
Init ==
    /\ \E n \in 0..1, ticked \in BOOLEAN :
          /\ urls = IF n = 0 THEN {} ELSE {FirstLink}
          /\ nextUrlId = n + 1
          /\ oneTimeAsked = IF n = 1 /\ ticked THEN {1} ELSE {}
    /\ clicks = {}
    /\ nextClickId = 1
    /\ now = 0
    /\ pc = [w \in Procs |-> "idle"]
    /\ req = [w \in Procs |-> NoReq]
    /\ resp = NoResp
    /\ started = 0

\* A request reaches idle worker w.
Accept(w) ==
    /\ pc[w] = "idle"
    /\ started < MaxRequests
    /\ started' = started + 1

\* The handler of worker w returns response r.
Finish(w, r) ==
    /\ pc' = [pc EXCEPT ![w] = "idle"]
    /\ req' = [req EXCEPT ![w] = NoReq]
    /\ resp' = r

\* The handler of worker w goes on at label l with locals r.
Goto(w, l, r) ==
    /\ pc' = [pc EXCEPT ![w] = l]
    /\ req' = [req EXCEPT ![w] = r]
    /\ UNCHANGED resp

(***************************************************************************)
(* The clock.                                                              *)
(***************************************************************************)
Tick ==
    /\ now < MaxTime
    /\ now' = now + 1
    /\ UNCHANGED <<db, pc, req, resp, started, oneTimeAsked>>

(***************************************************************************)
(* create_short_url: POST of URLForm.                                      *)
(***************************************************************************)
PlainForm ==
    [target |-> "https://example.com", code |-> <<>>, days |-> None,
     one_time |-> FALSE, password |-> ""]

\* The forms a user may post.
CreateForms ==
    { PlainForm,
      [PlainForm EXCEPT !.code = abc123],
      [PlainForm EXCEPT !.code = aaaaaa],
      [PlainForm EXCEPT !.code = BadCode],
      [PlainForm EXCEPT !.target = "https://x.test", !.days = Some(1)],
      [PlainForm EXCEPT !.target = "https://x.test", !.one_time = TRUE],
      [PlainForm EXCEPT !.target = "https://x.test", !.password = "s3cret"] }

IsAlnum(c) == c \in AlnumChars

\* all(c.isalnum() or c in ('-', '_') for c in short_code)
ValidChars(code) ==
    \A i \in 1..Len(code) : IsAlnum(code[i]) \/ code[i] \in {"-", "_"}

\* form = URLForm(request.POST, user=request.user)
CreateStart(w) ==
    /\ Accept(w)
    /\ \E user \in Creators, form \in CreateForms :
          Goto(w, "clean",
               [NoReq EXCEPT !.op = "create", !.user = user, !.code = form.code,
                             !.target = form.target, !.days = form.days,
                             !.one_time = form.one_time,
                             !.password = form.password, !.inst = NewURL])
    /\ UNCHANGED <<db, now, oneTimeAsked>>

\* The errors of the form's fields: custom_short_code (max_length, then
\* clean_custom_short_code) and expiration_days (min_value, max_value).
FieldErrors(r) ==
    (IF r.code = <<>> THEN {}
     ELSE IF Len(r.code) > CustomMaxLength THEN {"InvalidFormat"}
     ELSE IF ~ValidChars(r.code) THEN {"InvalidFormat"}
     ELSE IF CodeExists(r.code) THEN {"CodeConflict"}
     ELSE {})
    \cup
    (IF IsSome(r.days) /\ (Val(r.days) < MinDays \/ Val(r.days) > MaxDays)
     THEN {"InvalidDays"} ELSE {})

\* cleaned_data.get('custom_short_code'): absent when the field has an error.
CleanedCustom(r) ==
    IF r.code # <<>> /\ FieldErrors(r) \cap {"InvalidFormat", "CodeConflict"} = {}
    THEN r.code ELSE <<>>

\* URLForm.Meta.fields
MetaFields == {"original_url", "title", "custom_short_code", "expiration_days", "password"}

\* cleaned_data as URLForm.clean() returns it.
CleanedData(r) ==
    [original_url |-> r.target,
     password |-> r.password,
     custom_short_code |-> r.code,
     short_code |-> r.cleaned,
     expiration_days |-> r.days,
     expires_at |-> IF IsSome(r.days) THEN Some(now + Val(r.days)) ELSE None,
     is_one_time |-> r.one_time,
     created_by |-> r.user]

\* construct_instance: a model field is set from cleaned_data when it is in
\* cleaned_data and named in Meta.fields.
ConstructInstance(inst, cleaned) ==
    [f \in DOMAIN inst |->
        IF f \in DOMAIN cleaned /\ f \in MetaFields THEN cleaned[f] ELSE inst[f]]

\* The form is clean: form.is_valid() is False when a field had an error;
\* otherwise url = form.save(commit=False); url.created_by = request.user.
FormDone(w, r) ==
    IF r.errors # {}
    THEN Finish(w, Response(r, CHOOSE e \in r.errors : TRUE, 200, "", r.code, 0))
    ELSE Goto(w, "save_gen",
              [r EXCEPT !.inst = [ConstructInstance(r.inst, CleanedData(r))
                                    EXCEPT !.created_by = r.user],
                        !.cleaned = <<>>, !.length = 0, !.attempts = 0])

\* _clean_fields, then the start of clean().
FormClean(w) ==
    /\ pc[w] = "clean"
    /\ LET r == [req[w] EXCEPT !.errors = FieldErrors(req[w]),
                               !.cleaned = CleanedCustom(req[w])]
       IN  IF r.cleaned = <<>>
           THEN Goto(w, "form_gen", [r EXCEPT !.length = DefaultLength, !.attempts = 0])
           ELSE FormDone(w, r)
    /\ UNCHANGED <<db, now, started, oneTimeAsked>>

\* A generator that moves to the next length at the first collision.
FormGenDrawEager(w) ==
    /\ pc[w] = "form_gen"
    /\ \E code \in Draws(req[w].length) :
          IF ~CodeExists(code)
          THEN FormDone(w, [req[w] EXCEPT !.cleaned = code])
          ELSE Goto(w, "form_gen", [req[w] EXCEPT !.length = @ + 1, !.attempts = 0])
    /\ UNCHANGED <<db, now, started, oneTimeAsked>>

\* One iteration of the loop of URLForm._generate_short_code; after
\* MaxAttempts collisions it calls itself with length + 1.
FormGenDraw(w) ==
    /\ pc[w] = "form_gen"
    /\ \E code \in Draws(req[w].length) :
          IF ~CodeExists(code)
          THEN FormDone(w, [req[w] EXCEPT !.cleaned = code])
          ELSE IF req[w].attempts + 1 < MaxAttempts
          THEN Goto(w, "form_gen", [req[w] EXCEPT !.attempts = @ + 1])
          ELSE Goto(w, "form_gen", [req[w] EXCEPT !.length = @ + 1, !.attempts = 0])
    /\ UNCHANGED <<db, now, started, oneTimeAsked>>

(***************************************************************************)
(* URLListCreateView (api/views.py): POST through api.serializers'        *)
(* URLSerializer, whose short_code is read-only.                          *)
(***************************************************************************)
ApiBodies ==
    { [target |-> "https://example.com", is_active |-> TRUE, expires_at |-> None],
      [target |-> "https://x.test", is_active |-> TRUE, expires_at |-> Some(0)],
      [target |-> "https://x.test", is_active |-> FALSE, expires_at |-> Some(0)],
      [target |-> "https://x.test", is_active |-> FALSE, expires_at |-> None] }

\* serializer.save(created_by=request.user): URL.objects.create(**validated_data)
ApiCreateStart(w) ==
    /\ Accept(w)
    /\ \E user \in Creators, body \in ApiBodies :
          Goto(w, "save_gen",
               [NoReq EXCEPT !.op = "api_create", !.user = user,
                             !.target = body.target,
                             !.inst = [NewURL EXCEPT !.original_url = body.target,
                                                     !.is_active = body.is_active,
                                                     !.expires_at = body.expires_at,
                                                     !.created_by = user]])
    /\ UNCHANGED <<db, now, oneTimeAsked>>

(***************************************************************************)
(* URL.save and URL.generate_short_code.                                   *)
(***************************************************************************)
\* URL.save() up to super().save(): when short_code is empty, one iteration
\* of generate_short_code's while True loop.
SaveGenDraw(w) ==
    /\ pc[w] = "save_gen"
    /\ IF req[w].inst.short_code # <<>>
       THEN Goto(w, "save_insert", req[w])
       ELSE \E code \in Draws(DefaultLength) :
               IF CodeExists(code)
               THEN Goto(w, "save_gen", req[w])
               ELSE Goto(w, "save_insert",
                         [req[w] EXCEPT !.inst.short_code = code,
                                        !.inst.is_custom = FALSE])
    /\ UNCHANGED <<db, now, started, oneTimeAsked>>

\* An INSERT into a table without the constraint.
InsertUnchecked(inst) == TRUE

\* The INSERT statement: refused (IntegrityError) when the UNIQUE
\* constraint on short_code does not hold.
InsertOk(inst) == UniqueOk(inst.id, inst.short_code)

\* super().save() of a new instance.
SaveInsert(w) ==
    /\ pc[w] = "save_insert"
    /\ LET inst == [req[w].inst EXCEPT !.id = nextUrlId]
       IN  IF InsertOk(inst)
           THEN /\ urls' = urls \cup {inst}
                /\ nextUrlId' = nextUrlId + 1
                /\ oneTimeAsked' = IF req[w].one_time THEN oneTimeAsked \cup {inst.id}
                                   ELSE oneTimeAsked
                /\ Finish(w, Response(req[w], "Created", 302, "", inst.short_code, inst.id))
           ELSE /\ UNCHANGED <<urls, nextUrlId, oneTimeAsked>>
                /\ Finish(w, Response(req[w], "IntegrityError", 500, "", inst.short_code, 0))
    /\ UNCHANGED <<clicks, nextClickId, now, started>>

(***************************************************************************)
(* redirect_short_url: GET /<short_code>.                                  *)
(***************************************************************************)
\* URL.objects.get(short_code=short_code, is_active=True)
ActiveByCode(code) == { u \in urls : u.short_code = code /\ u.is_active }

\* URL.is_expired(): False when expires_at is not set, and otherwise
\* timezone.now() > self.expires_at.
IsExpired(inst, t) ==
    IF ~IsSome(inst.expires_at) THEN FALSE ELSE t > Val(inst.expires_at)

\* A test that also takes the instant of expiry itself as expired.
ExpiredAtOrOn(inst, t) == IsSome(inst.expires_at) /\ Val(inst.expires_at) <= t

\* url.expires_at and url.expires_at < timezone.now()
ExpiredAt(inst, t) == IsSome(inst.expires_at) /\ Val(inst.expires_at) < t

\* request.session.get(f'url_{url.id}_authenticated', False): no handler
\* sets the key.
SessionAuthenticated(id) == FALSE

\* A view that asks for the password before it looks at the expiry.
RedirectLookupPasswordFirst(w) ==
    /\ Accept(w)
    /\ \E code \in PathCodes :
          LET r == [NoReq EXCEPT !.op = "redirect", !.code = code]
          IN  IF ActiveByCode(code) = {}
              THEN Finish(w, NotFound(r))
              ELSE LET url == CHOOSE u \in ActiveByCode(code) : TRUE
                       q == [r EXCEPT !.inst = url]
                   IN  IF url.password # "" /\ ~SessionAuthenticated(url.id)
                       THEN Finish(w, Crash(q, "NoReverseMatch"))
                       ELSE IF ExpiredAt(url, now)
                       THEN Finish(w, Response(q, "Expired", 410, "", code, url.id))
                       ELSE Goto(w, "click_insert", q)
    /\ UNCHANGED <<db, now, oneTimeAsked>>

\* The lookup and the gates of the view: 404 on DoesNotExist, 410 when
\* expired; redirect('shortener:url_password', ...) names a route that
\* urls.py does not define, so reversing it raises NoReverseMatch.
RedirectLookup(w) ==
    /\ Accept(w)
    /\ \E code \in PathCodes :
          LET r == [NoReq EXCEPT !.op = "redirect", !.code = code]
          IN  IF ActiveByCode(code) = {}
              THEN Finish(w, NotFound(r))
              ELSE LET url == CHOOSE u \in ActiveByCode(code) : TRUE
                       q == [r EXCEPT !.inst = url]
                   IN  IF ExpiredAt(url, now)
                       THEN Finish(w, Response(q, "Expired", 410, "", code, url.id))
                       ELSE IF url.password # "" /\ ~SessionAuthenticated(url.id)
                       THEN Finish(w, Crash(q, "NoReverseMatch"))
                       ELSE Goto(w, "click_insert", q)
    /\ UNCHANGED <<db, now, oneTimeAsked>>

\* g.city(ip) raises (AddressNotFoundError) for an address that the GeoIP
\* database does not hold.
GeoRaises(ip) == ip # KnownIp

\* A handler that reports a failed lookup as 'Unknown'.
GeoFieldsUnknown(ip) ==
    IF GeoRaises(ip) THEN [country |-> "Unknown", city |-> "Unknown"]
    ELSE [country |-> "Nepal", city |-> "Kathmandu"]

\* country and city after the try block: '' when the lookup raised.
GeoFields(ip) ==
    IF GeoRaises(ip) THEN [country |-> "", city |-> ""]
    ELSE [country |-> "Nepal", city |-> "Kathmandu"]

\* clicked_at (auto_now_add) for a row stored on day `day` of the clock at
\* hour `hour` of that day: a timestamp in hours.
Stamp(day, hour) == day * 24 + hour

\* The Click that create_from_request builds for a request from ip whose
\* headers carry no referrer and a desktop browser's user agent.
ClickRow(id, url, t, ip) ==
    [id |-> id, url |-> url, clicked_at |-> Stamp(t, 0), ip_address |-> ip,
     referrer |-> "", user_agent |-> UserAgent, device_type |-> "Desktop",
     country |-> GeoFields(ip).country, city |-> GeoFields(ip).city]

\* Click.create_from_request(url, request): the request's address is read
\* from its headers, then the INSERT INTO click, which the foreign key to
\* the URL row may refuse.
ClickInsert(w) ==
    /\ pc[w] = "click_insert"
    /\ IF RowsById(req[w].inst.id) = {}
       THEN /\ UNCHANGED <<clicks, nextClickId>>
            /\ Finish(w, Crash(req[w], "IntegrityError"))
       ELSE /\ \E ip \in Ips :
                  clicks' = clicks \cup {ClickRow(nextClickId, req[w].inst.id, now, ip)}
            /\ nextClickId' = nextClickId + 1
            /\ Goto(w, "increment", req[w])
    /\ UNCHANGED <<urls, nextUrlId, now, started, oneTimeAsked>>

\* A counter that is set instead of incremented.
CountedOnce(inst) ==
    [inst EXCEPT !.click_count = 1, !.last_clicked = Some(now)]

\* URL.increment_click_count: the instance's counter plus one, then
\* save(update_fields=['click_count', 'last_clicked']).
Incremented(inst) ==
    [inst EXCEPT !.click_count = @ + 1, !.last_clicked = Some(now)]

IncrementClickCount(w) ==
    /\ pc[w] = "increment"
    /\ LET inst == Incremented(req[w].inst)
       IN  IF RowsById(inst.id) = {}
           THEN /\ UNCHANGED urls
                /\ Finish(w, Crash(req[w], "DatabaseError"))
           ELSE /\ urls' = UpdatedTable(inst, {"click_count", "last_clicked"})
                /\ Goto(w, "one_time", [req[w] EXCEPT !.inst = inst])
    /\ UNCHANGED <<clicks, nextUrlId, nextClickId, now, started, oneTimeAsked>>

\* if url.is_one_time: url.is_active = False; url.save(), then the 301.
\* Reading an attribute the instance does not have raises AttributeError.
RedirectFinish(w) ==
    /\ pc[w] = "one_time"
    /\ LET inst == req[w].inst
       IN  IF ~HasAttr(inst, "is_one_time")
           THEN /\ UNCHANGED urls
                /\ Finish(w, Crash(req[w], "AttributeError"))
           ELSE IF ~inst["is_one_time"]
           THEN /\ UNCHANGED urls
                /\ Finish(w, Response(req[w], "Redirect", 301, inst.original_url,
                                      inst.short_code, inst.id))
           ELSE LET off == [inst EXCEPT !.is_active = FALSE]
                IN  IF UniqueOk(off.id, off.short_code)
                    THEN /\ urls' = SavedTable(off)
                         /\ Finish(w, Response(req[w], "Redirect", 301, inst.original_url,
                                               inst.short_code, inst.id))
                    ELSE /\ UNCHANGED urls
                         /\ Finish(w, Crash(req[w], "IntegrityError"))
    /\ UNCHANGED <<clicks, nextUrlId, nextClickId, now, started, oneTimeAsked>>

(***************************************************************************)
(* edit_short_url: POST of EditURLForm (fields title, is_active).          *)
(***************************************************************************)
\* get_object_or_404(URL, pk=pk, created_by=request.user)
OwnedById(pk, user) == { u \in urls : u.id = pk /\ u.created_by = user }

EditLookup(w) ==
    /\ Accept(w)
    /\ \E user \in Users, pk \in 1..MaxRequests, active \in BOOLEAN :
          LET r == [NoReq EXCEPT !.op = "edit", !.user = user, !.pk = pk,
                                 !.is_active = active]
          IN  IF OwnedById(pk, user) = {}
              THEN Finish(w, NotFound(r))
              ELSE Goto(w, "edit_save",
                        [r EXCEPT !.inst = CHOOSE u \in OwnedById(pk, user) : TRUE])
    /\ UNCHANGED <<db, now, oneTimeAsked>>

\* A form that also declares short_code.
EditMetaFieldsWithCode == {"title", "is_active", "short_code"}

\* EditURLForm.Meta.fields
EditMetaFields == {"title", "is_active"}

\* The POST data of the edit form: the checkbox, and a short_code parameter
\* that the form does not declare.
EditPost(r) == [is_active |-> r.is_active, short_code |-> abc123]

\* construct_instance of EditURLForm: only the declared fields are copied.
EditConstruct(inst, post) ==
    [f \in DOMAIN inst |->
        IF f \in DOMAIN post /\ f \in EditMetaFields THEN post[f] ELSE inst[f]]

\* form.save(): the instance with the form's is_active, written by save().
EditSave(w) ==
    /\ pc[w] = "edit_save"
    /\ LET inst == EditConstruct(req[w].inst, EditPost(req[w]))
       IN  IF UniqueOk(inst.id, inst.short_code)
           THEN /\ urls' = SavedTable(inst)
                /\ Finish(w, Response(req[w], "Updated", 302, "", inst.short_code, inst.id))
           ELSE /\ UNCHANGED urls
                /\ Finish(w, Crash(req[w], "IntegrityError"))
    /\ UNCHANGED <<clicks, nextUrlId, nextClickId, now, started, oneTimeAsked>>

(***************************************************************************)
(* delete_short_url: POST.                                                 *)
(***************************************************************************)
DeleteLookup(w) ==
    /\ Accept(w)
    /\ \E user \in Users, pk \in 1..MaxRequests :
          LET r == [NoReq EXCEPT !.op = "delete", !.user = user, !.pk = pk]
          IN  IF OwnedById(pk, user) = {}
              THEN Finish(w, NotFound(r))
              ELSE Goto(w, "delete",
                        [r EXCEPT !.inst = CHOOSE u \in OwnedById(pk, user) : TRUE])
    /\ UNCHANGED <<db, now, oneTimeAsked>>

\* url.delete(): the row goes, and its clicks with it (on_delete=CASCADE).
DeleteRow(w) ==
    /\ pc[w] = "delete"
    /\ urls' = urls \ RowsById(req[w].inst.id)
    /\ clicks' = { c \in clicks : c.url # req[w].inst.id }
    /\ Finish(w, Response(req[w], "Deleted", 302, "", req[w].inst.short_code, req[w].inst.id))
    /\ UNCHANGED <<nextUrlId, nextClickId, now, started, oneTimeAsked>>

(***************************************************************************)
(* URLDetailView (api/views.py): PUT /api/urls/<short_code>/.              *)
(***************************************************************************)
\* A lookup by short code alone.
AnyByCode(code, user) == { u \in urls : u.short_code = code }

\* get_object() on URL.objects.filter(created_by=request.user)
OwnedByCode(code, user) == { u \in urls : u.short_code = code /\ u.created_by = user }

\* UpdateModelMixin.update: instance = self.get_object(), then
\* serializer.is_valid().
ApiUpdateLookup(w) ==
    /\ Accept(w)
    /\ \E user \in Users, code \in PathCodes, body \in ApiBodies :
          LET r == [NoReq EXCEPT !.op = "api_update", !.user = user, !.code = code,
                                 !.target = body.target, !.is_active = body.is_active,
                                 !.expires_at = body.expires_at]
          IN  IF OwnedByCode(code, user) = {}
              THEN Finish(w, NotFound(r))
              ELSE Goto(w, "api_refetch",
                        [r EXCEPT !.inst = CHOOSE u \in OwnedByCode(code, user) : TRUE])
    /\ UNCHANGED <<db, now, oneTimeAsked>>

\* perform_update: instance = self.get_object(), a second query.
ApiUpdateRefetch(w) ==
    /\ pc[w] = "api_refetch"
    /\ IF OwnedByCode(req[w].code, req[w].user) = {}
       THEN Finish(w, NotFound(req[w]))
       ELSE Goto(w, "api_save", req[w])
    /\ UNCHANGED <<db, now, started, oneTimeAsked>>

\* serializer.save() writes the first instance with the validated data;
\* instance.log_activity(...) then raises AttributeError, URL having no
\* such method.
ApiUpdateSave(w) ==
    /\ pc[w] = "api_save"
    /\ LET inst == [req[w].inst EXCEPT !.original_url = req[w].target,
                                       !.is_active = req[w].is_active,
                                       !.expires_at = req[w].expires_at]
       IN  IF UniqueOk(inst.id, inst.short_code)
           THEN /\ urls' = SavedTable(inst)
                /\ Finish(w, Crash(req[w], "AttributeError"))
           ELSE /\ UNCHANGED urls
                /\ Finish(w, Crash(req[w], "IntegrityError"))
    /\ UNCHANGED <<clicks, nextUrlId, nextClickId, now, started, oneTimeAsked>>

\* A request arrives at worker w: the first step of a handler.
Starts(w) ==
    \/ CreateStart(w)
    \/ ApiCreateStart(w)
    \/ RedirectLookup(w)
    \/ EditLookup(w)
    \/ DeleteLookup(w)
    \/ ApiUpdateLookup(w)

\* Worker w's handler runs its next database statement.
Steps(w) ==
    \/ FormClean(w)
    \/ FormGenDraw(w)
    \/ SaveGenDraw(w)
    \/ SaveInsert(w)
    \/ ClickInsert(w)
    \/ IncrementClickCount(w)
    \/ RedirectFinish(w)
    \/ EditSave(w)
    \/ DeleteRow(w)
    \/ ApiUpdateRefetch(w)
    \/ ApiUpdateSave(w)

Idle == \A w \in Procs : pc[w] = "idle"

Next ==
    \/ Tick
    \/ \E w \in Procs : Starts(w) \/ Steps(w)

Spec == Init /\ [][Next]_vars

\* Requests served one after the other: a request is accepted only when no
\* other is in progress.
SeqNext ==
    \/ Tick
    \/ \E w \in Procs : (Idle /\ Starts(w)) \/ Steps(w)

SeqSpec == Init /\ [][SeqNext]_vars

(***************************************************************************)
(* PasswordForm (shortener/forms.py).  No view of urls.py constructs the  *)
(* form, so it is not part of Next; PwSpec applies it, as a caller would, *)
(* to a link of the table (url=...) or to no link (url=None) and a         *)
(* submitted password.  Nothing in the repository writes the session key  *)
(* that redirect_short_url reads.                                          *)
(***************************************************************************)
Passwords == {"s3cret", "wrong"}

\* The row that create_short_url stores for a form with password "s3cret"
\* when generate_short_code draws "aaaaaa".
ProtectedLink == [FirstLink EXCEPT !.password = "s3cret"]

PwInit ==
    /\ urls = {ProtectedLink}
    /\ nextUrlId = 2
    /\ oneTimeAsked = {}
    /\ clicks = {}
    /\ nextClickId = 1
    /\ now = 0
    /\ pc = [w \in Procs |-> "idle"]
    /\ req = [w \in Procs |-> NoReq]
    /\ resp = NoResp
    /\ started = 0

\* A form that accepts whatever is submitted.
AcceptsAnything(url, password) == TRUE

\* clean_password: ValidationError when self.url and
\* self.url.password != password.
PasswordFormValid(url, password) ==
    ~(url # NoInst /\ url.password # password)

\* form = PasswordForm(request.POST, url=url)
PasswordFormStart(w) ==
    /\ Accept(w)
    /\ \E url \in urls \cup {NoInst}, password \in Passwords :
          Goto(w, "pw_clean",
               [NoReq EXCEPT !.op = "password", !.password = password, !.inst = url,
                             !.code = IF url = NoInst THEN <<>> ELSE url.short_code])
    /\ UNCHANGED <<db, now, oneTimeAsked>>

\* form.is_valid()
PasswordFormClean(w) ==
    /\ pc[w] = "pw_clean"
    /\ Finish(w, Response(req[w],
                          IF PasswordFormValid(req[w].inst, req[w].password)
                          THEN "Verified" ELSE "IncorrectPassword",
                          200, "", req[w].code, req[w].inst.id))
    /\ UNCHANGED <<db, now, started, oneTimeAsked>>

PwNext ==
    \/ Next
    \/ \E w \in Procs : PasswordFormStart(w) \/ PasswordFormClean(w)

PwSpec == PwInit /\ [][PwNext]_vars

(***************************************************************************)
(* The validators of a requested short code: URLForm's custom_short_code  *)
(* field with clean_custom_short_code, and validate_short_code of         *)
(* shortener/serializers.py's URLSerializer.  FmtSpec applies each of     *)
(* them to codes of the lengths and characters that decide the outcome.   *)
(***************************************************************************)
Fill(ch, n) == [i \in 1..n |-> ch]

MixedCode == <<"a", "-", "b", "c", "1", "2">>

TestCodes ==
    { Fill(ch, n) : ch \in {"a", "-", "!"}, n \in {2, 6, 20, 21, 24, 25} }
    \cup {MixedCode, abc123}

\* value.isalnum()
IsAlnumStr(code) == Len(code) > 0 /\ \A i \in 1..Len(code) : IsAlnum(code[i])

\* validate_short_code: ValidationError when value and not value.isalnum()
\* and not all(c in ('-', '_') for c in value); before it, the max_length
\* validator of the model field.
SerializerFormatOk(code) ==
    /\ Len(code) <= CodeMaxLength
    /\ ~(/\ code # <<>>
         /\ ~IsAlnumStr(code)
         /\ ~(\A i \in 1..Len(code) : code[i] \in {"-", "_"}))

FormatStart(w) ==
    /\ Accept(w)
    /\ \E code \in TestCodes, l \in {"fmt_form", "fmt_api"} :
          Goto(w, l, [NoReq EXCEPT !.op = "validate", !.code = code])
    /\ UNCHANGED <<db, now, oneTimeAsked>>

\* The form's verdict on the format of custom_short_code.
FormFormatCheck(w) ==
    /\ pc[w] = "fmt_form"
    /\ Finish(w, Response(req[w],
                          IF "InvalidFormat" \in FieldErrors(req[w])
                          THEN "InvalidFormat" ELSE "FormatOk",
                          200, "", req[w].code, 0))
    /\ UNCHANGED <<db, now, started, oneTimeAsked>>

\* The serializer's verdict on short_code.
SerializerFormatCheck(w) ==
    /\ pc[w] = "fmt_api"
    /\ Finish(w, Response(req[w],
                          IF SerializerFormatOk(req[w].code)
                          THEN "FormatOk" ELSE "InvalidFormat",
                          400, "", req[w].code, 0))
    /\ UNCHANGED <<db, now, started, oneTimeAsked>>

FmtNext ==
    \E w \in Procs :
        FormatStart(w) \/ FormFormatCheck(w) \/ SerializerFormatCheck(w)

FmtSpec == Init /\ [][FmtNext]_vars

(***************************************************************************)
(* Analytics and listings: url_stats and UrlClicksView (api/views.py),    *)
(* url_analytics, url_clicks and url_list (views.py).  StatsSpec runs     *)
(* them next to the handlers that write the tables they read; its visits  *)
(* come with or without an address and a referrer, at either end of a    *)
(* day.  A read leaves every table as it is and is answered in one step. *)
(***************************************************************************)
WindowDays == 30
TopN == 10

\* REMOTE_ADDR is absent from the request: ip_address is stored as NULL.
NoAddress == "NULL"
RequestIps == Ips \cup {NoAddress}
Referers == {"", "https://a.example", "https://b.example"}
DayHours == {0, 23}

\* The Click of a visit at hour `hour` of day `day` whose Referer header is
\* referrer.
StatsClickRow(id, url, day, hour, ip, referrer) ==
    [ClickRow(id, url, day, ip) EXCEPT !.clicked_at = Stamp(day, hour),
                                       !.referrer = referrer]

\* Click.create_from_request for the requests of StatsSpec.
StatsClickInsert(w) ==
    /\ pc[w] = "click_insert"
    /\ IF RowsById(req[w].inst.id) = {}
       THEN /\ UNCHANGED <<clicks, nextClickId>>
            /\ Finish(w, Crash(req[w], "IntegrityError"))
       ELSE /\ \E ip \in RequestIps, referrer \in Referers, hour \in DayHours :
                  clicks' = clicks \cup {StatsClickRow(nextClickId, req[w].inst.id,
                                                       now, hour, ip, referrer)}
            /\ nextClickId' = nextClickId + 1
            /\ Goto(w, "increment", req[w])
    /\ UNCHANGED <<urls, nextUrlId, now, started, oneTimeAsked>>

\* More than thirty days pass.
LongWait ==
    /\ now <= MaxTime
    /\ now' = now + WindowDays + 1
    /\ UNCHANGED <<db, pc, req, resp, started, oneTimeAsked>>

\* Click.objects.filter(url=url)
FilterClicks(id) == { c \in clicks : c.url = id }

\* clicked_at__date / clicked_at.strftime('%Y-%m-%d')
DateOf(ts) == ts \div 24

\* The arrangements of the elements of S in a row.
Orderings(S) ==
    { s \in [1..Cardinality(S) -> S] :
        \A i, j \in 1..Cardinality(S) : i # j => s[i] # s[j] }

\* .values('clicked_at__date').annotate(count=Count('id'))
\* .order_by('clicked_at__date') over the clicks S; also the dict that
\* url_analytics fills from clicks ordered by clicked_at.
ByDate(S) ==
    LET D == { DateOf(c.clicked_at) : c \in S }
        s == CHOOSE o \in Orderings(D) : \A i, j \in DOMAIN o : i < j => o[i] < o[j]
    IN  [i \in DOMAIN s |->
            [date |-> s[i],
             count |-> Cardinality({ c \in S : DateOf(c.clicked_at) = s[i] })]]

\* .count()
TotalClicks(id) == Cardinality(FilterClicks(id))

\* .values('ip_address').distinct().count(): SELECT COUNT(*) FROM (SELECT
\* DISTINCT ip_address ...), in which NULL is one row.
UniqueVisitors(id) == Cardinality({ c.ip_address : c \in FilterClicks(id) })

\* .values(f).annotate(count=Count(...)): how many clicks of S have v.
CountOf(S, f, v) == Cardinality({ c \in S : c[f] = v })

\* s[:n]
FirstN(s, n) == SubSeq(s, 1, IF Len(s) < n THEN Len(s) ELSE n)

\* .values(f).annotate(count=...).order_by('-count')[:10] over the clicks S:
\* the rows in descending count; ORDER BY names no other key, so rows of
\* equal count come in whatever order the database produces them.
TopLists(S, f) ==
    { FirstN([i \in DOMAIN o |-> [value |-> o[i], count |-> CountOf(S, f, o[i])]], TopN) :
        o \in { p \in Orderings({ c[f] : c \in S }) :
                  \A i, j \in DOMAIN p : i < j => CountOf(S, f, p[i]) >= CountOf(S, f, p[j]) } }

\* The answer of a read: the response with the user who asked and the data.
ReadResponse(r, kind, status, id, body) ==
    [op |-> r.op, kind |-> kind, status |-> status, location |-> "",
     code |-> r.code, id |-> id, user |-> r.user, body |-> body]

\* get_object_or_404(URL, short_code=short_code, created_by=request.user)
\* finds no row.
ReadNotFound(r) == ReadResponse(r, "NotFound", 404, 0, <<>>)

\* url_stats (api/views.py)
UrlStats(w) ==
    /\ pc[w] = "idle"
    /\ \E user \in Users, code \in PathCodes :
          LET r == [NoReq EXCEPT !.op = "stats", !.user = user, !.code = code]
          IN  IF OwnedByCode(code, user) = {}
              THEN resp' = ReadNotFound(r)
              ELSE LET url == CHOOSE u \in OwnedByCode(code, user) : TRUE
                       S == FilterClicks(url.id)
                   IN  \E refs \in TopLists({ c \in S : c.referrer # "" }, "referrer"),
                          agents \in TopLists({ c \in S : c.user_agent # "" }, "user_agent") :
                          resp' = ReadResponse(r, "Stats", 200, url.id,
                                     [total_clicks |-> TotalClicks(url.id),
                                      unique_visitors |-> UniqueVisitors(url.id),
                                      clicks_by_date |-> ByDate(S),
                                      top_referrers |-> refs,
                                      top_user_agents |-> agents])
    /\ UNCHANGED <<db, now, pc, req, started, oneTimeAsked>>

\* url_analytics (views.py): the chart covers the last thirty days,
\* total_clicks is the link's counter, referrers keeps the empty referrer.
UrlAnalytics(w) ==
    /\ pc[w] = "idle"
    /\ \E user \in Users, code \in PathCodes, hour \in DayHours :
          LET r == [NoReq EXCEPT !.op = "analytics", !.user = user, !.code = code]
          IN  IF OwnedByCode(code, user) = {}
              THEN resp' = ReadNotFound(r)
              ELSE LET url == CHOOSE u \in OwnedByCode(code, user) : TRUE
                       S == FilterClicks(url.id)
                       thirty_days_ago == Stamp(now, hour) - WindowDays * 24
                   IN  \E refs \in TopLists(S, "referrer") :
                          resp' = ReadResponse(r, "Stats", 200, url.id,
                                     [total_clicks |-> url.click_count,
                                      unique_visitors |-> UniqueVisitors(url.id),
                                      clicks_by_date |->
                                          ByDate({ c \in S : c.clicked_at >= thirty_days_ago }),
                                      top_referrers |-> refs,
                                      top_user_agents |-> <<>>])
    /\ UNCHANGED <<db, now, pc, req, started, oneTimeAsked>>

\* url_clicks (views.py) and UrlClicksView (api/views.py): the clicks of
\* the user's link.
UrlClicks(w) ==
    /\ pc[w] = "idle"
    /\ \E user \in Users, code \in PathCodes :
          LET r == [NoReq EXCEPT !.op = "clicks", !.user = user, !.code = code]
          IN  IF OwnedByCode(code, user) = {}
              THEN resp' = ReadNotFound(r)
              ELSE LET url == CHOOSE u \in OwnedByCode(code, user) : TRUE
                   IN  resp' = ReadResponse(r, "Clicks", 200, url.id, FilterClicks(url.id))
    /\ UNCHANGED <<db, now, pc, req, started, oneTimeAsked>>

\* url_list (views.py) and URLListCreateView.get_queryset (api/views.py)
UrlList(w) ==
    /\ pc[w] = "idle"
    /\ \E user \in Users :
          LET r == [NoReq EXCEPT !.op = "list", !.user = user]
          IN  resp' = ReadResponse(r, "List", 200, 0,
                                   { u \in urls : u.created_by = user })
    /\ UNCHANGED <<db, now, pc, req, started, oneTimeAsked>>

Reads(w) ==
    \/ UrlStats(w)
    \/ UrlAnalytics(w)
    \/ UrlClicks(w)
    \/ UrlList(w)

\* alice's link is stored and has not been visited.
StatsInit ==
    /\ urls = {FirstLink}
    /\ nextUrlId = 2
    /\ oneTimeAsked = {}
    /\ clicks = {}
    /\ nextClickId = 1
    /\ now = 0
    /\ pc = [w \in Procs |-> "idle"]
    /\ req = [w \in Procs |-> NoReq]
    /\ resp = NoResp
    /\ started = 0

\* Visits of the link, and its statistics read at any moment.
StatsNext ==
    \/ LongWait
    \/ \E w \in Procs :
          \/ RedirectLookup(w)
          \/ StatsClickInsert(w)
          \/ IncrementClickCount(w)
          \/ RedirectFinish(w)
          \/ UrlStats(w)
          \/ UrlAnalytics(w)

StatsSpec == StatsInit /\ [][StatsNext]_vars

\* alice's link after one visit: the Click is stored and the counter is 1.
VisitedLink == [FirstLink EXCEPT !.click_count = 1, !.last_clicked = Some(0)]

OwnerInit ==
    /\ urls = {VisitedLink}
    /\ nextUrlId = 2
    /\ oneTimeAsked = {}
    /\ clicks = {ClickRow(1, VisitedLink.id, 0, KnownIp)}
    /\ nextClickId = 2
    /\ now = 0
    /\ pc = [w \in Procs |-> "idle"]
    /\ req = [w \in Procs |-> NoReq]
    /\ resp = NoResp
    /\ started = 0

\* The management and analytics requests of alice and of bob.
OwnerNext ==
    \E w \in Procs :
        \/ EditLookup(w)
        \/ EditSave(w)
        \/ DeleteLookup(w)
        \/ DeleteRow(w)
        \/ ApiUpdateLookup(w)
        \/ ApiUpdateRefetch(w)
        \/ ApiUpdateSave(w)
        \/ Reads(w)

OwnerSpec == OwnerInit /\ [][OwnerNext]_vars

(***************************************************************************)
(* Expiry: the inline test of redirect_short_url and URL.is_expired, which *)
(* no view calls.  ExpSpec starts from a link whose expires_at was set     *)
(* through the API, lets the clock pass it, and applies both tests.        *)
(***************************************************************************)
ExpInit ==
    /\ \E e \in {None} \cup { Some(t) : t \in Times } :
          urls = {[FirstLink EXCEPT !.expires_at = e]}
    /\ nextUrlId = 2
    /\ oneTimeAsked = {}
    /\ clicks = {}
    /\ nextClickId = 1
    /\ now = 0
    /\ pc = [w \in Procs |-> "idle"]
    /\ req = [w \in Procs |-> NoReq]
    /\ resp = NoResp
    /\ started = 0

\* url.is_expired() on a stored link.
IsExpiredCall(w) ==
    /\ pc[w] = "idle"
    /\ \E u \in urls :
          resp' = Response([NoReq EXCEPT !.op = "is_expired"],
                           IF IsExpired(u, now) THEN "Expired" ELSE "NotExpired",
                           200, "", u.short_code, u.id)
    /\ UNCHANGED <<db, now, pc, req, started, oneTimeAsked>>

ExpNext ==
    \/ Tick
    \/ \E w \in Procs :
          \/ RedirectLookup(w)
          \/ ClickInsert(w)
          \/ IncrementClickCount(w)
          \/ RedirectFinish(w)
          \/ IsExpiredCall(w)

ExpSpec == ExpInit /\ [][ExpNext]_vars

(***************************************************************************)
(* Properties.                                                             *)
(***************************************************************************)
ClicksOf(id) == { c \in clicks : c.url = id }

\* Worker w's handler returns in this step.
Returns(w) == pc[w] # "idle" /\ pc'[w] = "idle"

\* An idle worker takes a request of kind op and answers it in the same step.
AnswersAtOnce(op) ==
    /\ started' = started + 1
    /\ pc' = pc
    /\ resp'.op = op

\* C1: in every reachable state no two rows of the URL table have the same
\* short_code, whether the rows are active or not.
C1_UniqueShortCodes ==
    \A u, v \in urls : u.short_code = v.short_code => u = v

C1_Witness ==
    \E u, v \in urls : u # v /\ ~u.is_active /\ v.is_active

\* C2: a creation whose chosen code is already stored when its INSERT runs
\* (the other creation that picked the same code won) stores nothing and
\* fails; only one of the two has stored a link with that code.
C2_LoserStoresNothing ==
    [][\A w \in Procs :
          (pc[w] = "save_insert" /\ Returns(w) /\ CodeExists(req[w].inst.short_code))
          => (urls' = urls /\ resp'.kind = "IntegrityError")]_vars

C2_Witness ==
    /\ resp.op = "create"
    /\ resp.kind = "IntegrityError"
    /\ Cardinality({ u \in urls : u.short_code = resp.code }) = 1

\* C3: of the GETs of a one-time link, one is answered with the redirect
\* and records the only click; the others are answered Inactive; none
\* crashes.
C3_OneTimeExclusive ==
    \A id \in oneTimeAsked :
        /\ (resp.op = "redirect" /\ resp.id = id) => resp.kind \in {"Redirect", "Inactive"}
        /\ Cardinality(ClicksOf(id)) <= 1

\* C4: once a GET of a one-time link has been resolved, the link is
\* inactive (and stays so for every later GET).
C4_OneTimeConsumed ==
    \A id \in oneTimeAsked : \A u \in RowsById(id) :
        (Idle /\ u.click_count >= 1) => ~u.is_active

\* C5: a GET that found the link active, not expired and without password
\* is answered with a redirect to the link's target.
C5_ResolvableRedirects ==
    [][\A w \in Procs :
          (pc[w] \in {"click_insert", "increment", "one_time"} /\ Returns(w))
          => (resp'.kind = "Redirect" /\ resp'.status = 301
              /\ resp'.location = req[w].inst.original_url)]_vars

\* C6: a creation through the form with a well-formed, unused custom code
\* stores the link under that code, with the given target.
C6_CustomCodeStored ==
    [][\A w \in Procs :
          (pc[w] = "save_insert" /\ Returns(w) /\ req[w].op = "create"
           /\ req[w].code # <<>> /\ resp'.kind = "Created")
          => (/\ resp'.code = req[w].code
              /\ \E u \in urls' : u.short_code = req[w].code
                                  /\ u.original_url = req[w].target)]_vars

\* C7: with requests served one after the other, a link's click_count is
\* the number of resolutions made of it (each has inserted one Click), and
\* last_clicked is set once there is one.
C7_SequentialCount ==
    Idle => \A u \in urls :
              /\ u.click_count = Cardinality(ClicksOf(u.id))
              /\ (u.click_count >= 1 => IsSome(u.last_clicked))

C7_Witness ==
    /\ Idle
    /\ resp.op = "redirect"
    /\ \E u \in urls : u.id = resp.id /\ u.click_count = 2 /\ IsSome(u.last_clicked)

\* C8: a GET of a stored code whose expires_at is in the past is answered
\* Expired, whether the row is active or not.
C8_ExpiredWhateverActive ==
    [][AnswersAtOnce("redirect")
       => \A u \in urls :
             (u.short_code = resp'.code /\ ExpiredAt(u, now))
             => (resp'.kind = "Expired" /\ resp'.status = 410)]_vars

\* C9: a link created through the form with expiration_days = d is stored
\* with expires_at = creation time + d days.
C9_ExpiryStored ==
    [][\A w \in Procs :
          (pc[w] = "save_insert" /\ Returns(w) /\ req[w].op = "create"
           /\ IsSome(req[w].days) /\ resp'.kind = "Created")
          => \E u \in urls' : u.id = resp'.id
                              /\ u.expires_at = Some(now + Val(req[w].days))]_vars

\* C10: a GET of a stored, inactive, unexpired code is answered Inactive
\* (410), not with the 404 of a code that was never stored.
C10_InactiveNotNotFound ==
    [][AnswersAtOnce("redirect")
       => \A u \in urls :
             (u.short_code = resp'.code /\ ~u.is_active /\ ~ExpiredAt(u, now))
             => (resp'.kind = "Inactive" /\ resp'.status = 410)]_vars

\* C11: a submission whose password differs from the password of the link
\* the form is bound to is answered IncorrectPassword; it changes no table,
\* returns no target, and the link has no Click, click_count 0 and no
\* last_clicked after it.
C11_WrongPasswordInert ==
    [][\A w \in Procs :
          (pc[w] = "pw_clean" /\ Returns(w) /\ req[w].inst # NoInst
           /\ req[w].password # req[w].inst.password)
          => (/\ resp'.kind = "IncorrectPassword"
              /\ resp'.location = ""
              /\ db' = db
              /\ \A u \in urls' :
                    (u.id = req[w].inst.id /\ u.password # "")
                    => (u.click_count = 0 /\ u.last_clicked = None
                        /\ { c \in clicks' : c.url = u.id } = {}))]_vars

C11_Witness ==
    /\ resp.op = "password"
    /\ resp.kind = "IncorrectPassword"
    /\ started = MaxRequests
    /\ \E u \in urls : u.id = resp.id /\ u.password # "" /\ u.is_active

\* C12: a GET of an active, unexpired, password-protected link made in a
\* session that holds no marker for that link (another link's marker, or
\* another session's, does not count) is answered PasswordRequired.
C12_UnverifiedStaysGated ==
    [][AnswersAtOnce("redirect")
       => \A u \in urls :
             (u.short_code = resp'.code /\ u.is_active /\ ~ExpiredAt(u, now)
              /\ u.password # "" /\ ~SessionAuthenticated(u.id))
             => resp'.kind = "PasswordRequired"]_vars

\* C13: once the correct password of an active, unexpired protected link
\* has been accepted (Verified), the next GET of that link is not stopped
\* at the password gate: it redirects to the target.
C13_VerifiedThenRedirect ==
    [][\A u \in urls :
          (resp.op = "password" /\ resp.kind = "Verified" /\ resp.id = u.id
           /\ u.password # "" /\ u.is_active /\ ~ExpiredAt(u, now)
           /\ AnswersAtOnce("redirect") /\ resp'.code = u.short_code)
          => (resp'.kind = "Redirect" /\ resp'.location = u.original_url)]_vars

\* C14: a submission is accepted (Verified) only when the form is bound to
\* a link, the link is active and not expired, and the submitted password
\* equals the link's password.
C14_AcceptedOnlyThroughGates ==
    [][\A w \in Procs :
          (pc[w] = "pw_clean" /\ Returns(w) /\ resp'.kind = "Verified")
          => (/\ req[w].inst # NoInst
              /\ req[w].inst.is_active
              /\ ~ExpiredAt(req[w].inst, now)
              /\ req[w].password = req[w].inst.password)]_vars

\* C15: a GET answered NotFound, Inactive, Expired or PasswordRequired
\* changes no table (no Click, same click_count, last_clicked, is_active);
\* and a GET that has created a Click is answered with the redirect to the
\* target.
C15_ClicksOnlyFromRedirects ==
    [][/\ (AnswersAtOnce("redirect")
           /\ resp'.kind \in {"NotFound", "Inactive", "Expired", "PasswordRequired"})
          => db' = db
       /\ \A w \in Procs :
             (pc[w] = "one_time" /\ Returns(w) /\ ClicksOf(req[w].inst.id) # {})
             => (resp'.kind = "Redirect" /\ resp'.location = req[w].inst.original_url)]_vars

\* C16: no increment is lost: the UPDATE of increment_click_count leaves
\* the stored click_count at least one above what it was just before.
C16_NoLostIncrement ==
    [][\A w \in Procs :
          (pc[w] = "increment" /\ pc'[w] = "one_time")
          => \A u \in urls, v \in urls' :
                (u.id = req[w].inst.id /\ v.id = u.id)
                => v.click_count >= u.click_count + 1]_vars

\* C17: no step decreases the stored click_count of a link.
C17_ClickCountMonotone ==
    [][\A u \in urls, v \in urls' :
          u.id = v.id => v.click_count >= u.click_count]_vars

\* C18: the write of an edit (web form or API update) leaves the stored
\* click_count and last_clicked of every link as they were.
C18_EditKeepsCounters ==
    [][\A w \in Procs :
          (pc[w] \in {"edit_save", "api_save"} /\ Returns(w))
          => \A u \in urls, v \in urls' :
                u.id = v.id => (v.click_count = u.click_count
                                /\ v.last_clicked = u.last_clicked)]_vars

\* C19: no step sets the is_active of a stored link from false to true.
C19_NoReactivation ==
    [][\A u \in urls, v \in urls' :
          (u.id = v.id /\ ~u.is_active) => ~v.is_active]_vars

\* C20: a creation that follows the deletion of a link is not stored under
\* the deleted link's short code.
C20_NoRecycling ==
    [][\A w \in Procs :
          (pc[w] = "save_insert" /\ Returns(w) /\ resp'.kind = "Created")
          => ~(resp.kind = "Deleted" /\ resp.code = resp'.code)]_vars

\* C21: no step changes the short_code of a stored link.
C21_ShortCodeImmutable ==
    [][\A u \in urls, v \in urls' :
          u.id = v.id => v.short_code = u.short_code]_vars

C21_Witness ==
    /\ resp.op = "edit"
    /\ resp.kind = "Updated"
    /\ \E u \in urls : u.id = resp.id /\ ~u.is_active /\ u.short_code = aaaaaa

\* C22: a link that a creation stores has no expires_at, or one that is
\* later than the time of its creation.
C22_ExpiryInFuture ==
    [][\A w \in Procs :
          (pc[w] = "save_insert" /\ Returns(w) /\ resp'.kind = "Created")
          => \A u \in urls' :
                u.id = resp'.id
                => (u.expires_at = None \/ Val(u.expires_at) > now)]_vars

\* The format of a requested code: every character in [A-Za-z0-9_-] and a
\* length between 6 and 24.
WellFormed(code) ==
    /\ Len(code) >= 6
    /\ Len(code) <= 24
    /\ \A i \in 1..Len(code) : code[i] \in AlnumChars \cup {"-", "_"}

\* C23: each validator (web form, API serializer) accepts the format of a
\* requested code exactly when the code is well formed, so both accept the
\* same codes.
C23_FormatValidation ==
    [][\A w \in Procs :
          (pc[w] \in {"fmt_form", "fmt_api"} /\ Returns(w))
          => (resp'.kind = "FormatOk" <=> WellFormed(req[w].code))]_vars

C25_GeneratorEnds ==
    \A w \in Procs :
        /\ (pc[w] = "save_gen" /\ req[w].inst.short_code = <<>>)
           => \E code \in Draws(DefaultLength) : ~CodeExists(code)
        /\ pc[w] = "form_gen" => req[w].length <= 10

\* C26: a creation does not answer with the failure of its INSERT: when
\* the code it chose was taken in the meantime it picks another one and
\* answers Created.
C26_LostRaceRetried ==
    [][\A w \in Procs :
          (pc[w] = "save_insert" /\ Returns(w)) => resp'.kind = "Created"]_vars

\* C27: a GET that passed the gates and whose Click could not be created
\* is still answered with the redirect to the target.
C27_RecordingFailureHidden ==
    [][\A w \in Procs :
          (pc[w] = "click_insert" /\ Returns(w))
          => (resp'.kind = "Redirect" /\ resp'.location = req[w].inst.original_url)]_vars

\* C29: no state shows a one-time link whose click_count has been
\* incremented while is_active is still true, and a resolution of a link
\* that is not one-time leaves its is_active as it is.
C29_VisitIndivisible ==
    [][/\ \A v \in urls' :
             (v.id \in oneTimeAsked /\ v.click_count >= 1) => ~v.is_active
       /\ \A w \in Procs :
             (pc[w] \in {"increment", "one_time"} /\ pc'[w] # pc[w]
              /\ req[w].inst.id \notin oneTimeAsked)
             => \A u \in urls, v \in urls' :
                   (u.id = req[w].inst.id /\ v.id = u.id)
                   => v.is_active = u.is_active]_vars

\* C30: every GET is answered with the redirect to the target, NotFound,
\* Expired, Inactive or PasswordRequired, never with an unhandled error.
C30_ResolverTotal ==
    resp.op = "redirect"
    => (/\ resp.kind \in {"Redirect", "NotFound", "Expired", "Inactive", "PasswordRequired"}
        /\ resp.status \in {301, 302, 404, 410})

ReadAnswered(kinds) ==
    /\ pc' = pc /\ started' = started /\ now' = now
    /\ resp'.kind \in kinds

\* C31: the statistics of a link report total_clicks equal to the number of
\* its Click rows and unique_visitors equal to the number of distinct
\* ip_address values among them, the rows without address counting as one
\* value.
C31_StatsCounts ==
    [][ReadAnswered({"Stats"})
       => LET S == { c \in clicks : c.url = resp'.id }
          IN  /\ resp'.body.total_clicks = Cardinality(S)
              /\ resp'.body.unique_visitors
                   = Cardinality({ c.ip_address : c \in S \ { d \in S : d.ip_address = NoAddress } })
                     + (IF \E c \in S : c.ip_address = NoAddress THEN 1 ELSE 0)]_vars

RECURSIVE SumCounts(_)
\* The sum of the counts of the rows of s.
SumCounts(s) == IF s = <<>> THEN 0 ELSE s[1].count + SumCounts(Tail(s))

\* C32: clicks_by_date of a link's statistics has exactly one entry for each
\* calendar date on which the link has a Click, with the number of Clicks
\* of that date, in strictly ascending order of the dates; the counts add up
\* to the number of Clicks the link has.
C32_ClicksByDate ==
    [][ReadAnswered({"Stats"})
       => LET S == { c \in clicks : c.url = resp'.id }
              b == resp'.body.clicks_by_date
          IN  /\ { b[i].date : i \in DOMAIN b } = { c.clicked_at \div 24 : c \in S }
              /\ \A i \in DOMAIN b :
                    b[i].count = Cardinality({ c \in S : c.clicked_at \div 24 = b[i].date })
              /\ \A i, j \in DOMAIN b : i < j => b[i].date < b[j].date
              /\ SumCounts(b) = Cardinality(S)]_vars

\* The id of the earliest Click of S whose field f is v.
FirstSeen(S, f, v) ==
    CHOOSE n \in { c.id : c \in { d \in S : d[f] = v } } :
        \A c \in S : c[f] = v => n <= c.id

\* The list l names at most TopN distinct values of field f of the clicks
\* S, in descending count, values of equal count in first-seen order.
TopOrdered(l, S, f) ==
    /\ Len(l) <= TopN
    /\ \A i \in DOMAIN l : \E c \in S : c[f] = l[i].value
    /\ \A i, j \in DOMAIN l :
          i < j => /\ l[i].value # l[j].value
                   /\ l[i].count >= l[j].count
                   /\ l[i].count = l[j].count
                        => FirstSeen(S, f, l[i].value) < FirstSeen(S, f, l[j].value)

\* C33: top_referrers and top_user_agents of a link's statistics list at
\* most 10 distinct values in descending order of their click counts, and
\* values of equal count in the order in which each was first seen among
\* the link's Clicks.
C33_TopOrder ==
    [][ReadAnswered({"Stats"})
       => LET S == { c \in clicks : c.url = resp'.id }
          IN  /\ TopOrdered(resp'.body.top_referrers, S, "referrer")
              /\ TopOrdered(resp'.body.top_user_agents, S, "user_agent")]_vars

\* C34: Click rows are append-only: no step of any handler changes a field
\* of a stored Click or removes it.
C34_ClicksAppendOnly ==
    [][\A c \in clicks : c \in clicks']_vars

\* C35: the gates of a GET apply in the order inactive, expired, password:
\* a GET of an inactive link's code is answered NotFound whatever else
\* holds of the link; a GET of an active link whose expires_at is in the
\* past is answered Expired (410) whether the link has a password or not
\* and whatever the session holds; only an active, unexpired link goes on to
\* be recorded.
C35_GateOrder ==
    [][/\ \A u \in urls :
             (AnswersAtOnce("redirect") /\ u.short_code = resp'.code)
             => /\ ~u.is_active => resp'.kind = "NotFound"
                /\ (u.is_active /\ IsSome(u.expires_at) /\ Val(u.expires_at) < now)
                      => (resp'.kind = "Expired" /\ resp'.status = 410)
       /\ \A w \in Procs :
             (pc[w] = "idle" /\ pc'[w] = "click_insert")
             => /\ req'[w].inst \in urls
                /\ req'[w].inst.is_active
                /\ ~(IsSome(req'[w].inst.expires_at) /\ Val(req'[w].inst.expires_at) < now)]_vars

\* An active, password-protected link whose expiry has passed was requested
\* and the answer was Expired.
C35_Witness ==
    /\ resp.op = "redirect" /\ resp.kind = "Expired" /\ resp.status = 410
    /\ \E u \in urls :
          /\ u.id = resp.id /\ u.is_active /\ u.password # ""
          /\ IsSome(u.expires_at) /\ Val(u.expires_at) < now

\* C36: expiry is strict.  A GET of an active link is answered Expired
\* exactly when now > expires_at, so a GET at now = expires_at goes on to be
\* recorded, as does one of a link without expires_at; URL.is_expired
\* answers True for a link exactly when the GET's test does.
C36_StrictExpiry ==
    [][/\ \A u \in urls :
             (AnswersAtOnce("redirect") /\ u.short_code = resp'.code /\ u.is_active)
             => (resp'.kind = "Expired"
                   <=> (IsSome(u.expires_at) /\ now > Val(u.expires_at)))
       /\ \A w \in Procs :
             (pc[w] = "idle" /\ pc'[w] = "click_insert")
             => ~(IsSome(req'[w].inst.expires_at) /\ now > Val(req'[w].inst.expires_at))
       /\ \A u \in urls :
             (ReadAnswered({"Expired", "NotExpired"}) /\ resp'.op = "is_expired"
                /\ u.id = resp'.id)
             => (resp'.kind = "Expired"
                   <=> (IsSome(u.expires_at) /\ now > Val(u.expires_at)))]_vars

\* A GET at the very instant of expiry has passed the gates, and is_expired
\* has answered False at that instant.
C36_Witness ==
    /\ \E w \in Procs :
          pc[w] = "click_insert" /\ req[w].inst.expires_at = Some(now)
    /\ resp.op = "is_expired" /\ resp.kind = "NotExpired"
    /\ \E u \in urls : u.id = resp.id /\ u.expires_at = Some(now)

\* A code of the given length that random.choices may return is stored.
SomeDrawStored(length) ==
    \E code \in Draws(length) : \E u \in urls : u.short_code = code

\* A code of the given length that random.choices may return is not stored.
SomeDrawFree(length) ==
    \E code \in Draws(length) : \A u \in urls : u.short_code # code

\* C37: code generation starts at length 6; a draw that is stored for no
\* link, active or not, ends it at once; a draw that collides is followed by
\* another draw at the same length, and only the tenth collision in a row
\* at a length is followed by a draw at the next length.
C37_EscalationAfterTen ==
    [][\A w \in Procs :
          /\ (pc[w] # "form_gen" /\ pc'[w] = "form_gen")
             => (req'[w].length = DefaultLength /\ req'[w].attempts = 0)
          /\ (pc[w] = "form_gen" /\ pc'[w] = "form_gen" /\ req'[w] # req[w])
             => /\ SomeDrawStored(req[w].length)
                /\ \/ /\ req'[w].length = req[w].length
                      /\ req'[w].attempts = req[w].attempts + 1
                      /\ req'[w].attempts < MaxAttempts
                   \/ /\ req'[w].length = req[w].length + 1
                      /\ req[w].attempts + 1 = MaxAttempts
                      /\ req'[w].attempts = 0
          /\ (pc[w] = "form_gen" /\ pc'[w] # "form_gen")
             => SomeDrawFree(req[w].length)
          /\ (pc[w] = "save_gen" /\ pc'[w] = "save_insert" /\ req[w].inst.short_code = <<>>)
             => /\ Len(req'[w].inst.short_code) = DefaultLength
                /\ \A u \in urls : u.short_code # req'[w].inst.short_code]_vars

\* Ten draws of length 6 in a row have collided and the form's generator
\* draws at length 7.
C37_Witness ==
    \E w \in Procs :
        /\ pc[w] = "form_gen" /\ req[w].length = DefaultLength + 1
        /\ \A code \in Draws(DefaultLength) : \E u \in urls : u.short_code = code

\* C38: whenever no GET is being handled, the click_count of every stored
\* link equals the number of Click rows of that link.
C38_CounterMatchesEvents ==
    (\A w \in Procs : req[w].op # "redirect")
    => \A u \in urls : u.click_count = Cardinality({ c \in clicks : c.url = u.id })

\* C39: a GET that is being handled never turns a stored link active
\* again: no step of its handler changes the stored is_active of a link that
\* is not one-time, so a link that its owner deactivates while the GET runs
\* is still inactive when both have finished; and a GET passes the lookup
\* only for a row that is active at that moment.
C39_DeactivationSticks ==
    [][\A w \in Procs :
          /\ (req[w].op = "redirect" /\ pc'[w] # pc[w])
             => \A u \in urls :
                   (~u.is_active \/ u.id \notin oneTimeAsked)
                   => \E v \in urls' : v.id = u.id /\ v.is_active = u.is_active
          /\ (pc[w] = "idle" /\ pc'[w] = "click_insert")
             => (req'[w].inst \in urls /\ req'[w].inst.is_active)]_vars

\* The owner's edit has deactivated the link that a GET had read as active,
\* and the GET has since written the counter.
C39_Witness ==
    /\ resp.op = "edit" /\ resp.kind = "Updated"
    /\ \E w \in Procs :
          /\ pc[w] = "one_time" /\ req[w].inst.is_active
          /\ \E u \in urls :
                /\ u.id = req[w].inst.id /\ ~u.is_active
                /\ u.click_count = req[w].inst.click_count /\ u.click_count > 0

\* C40: management and analytics are confined to the owner.  An edit, a
\* delete or an API update goes past its lookup only with a stored link
\* whose created_by is the requesting user, and otherwise is answered 404
\* with the tables unchanged; no step of these handlers removes or changes a
\* link of another user or a Click of such a link.  The statistics, the
\* analytics page and the click list return a link and its Clicks only to
\* its owner, and answer a request for another user's link exactly as one
\* for a code that is not stored; a listing holds the user's links only.
\* No read changes a table.
C40_OwnerConfinement ==
    [][/\ \A w \in Procs :
             /\ (pc[w] = "idle" /\ pc'[w] \in {"edit_save", "delete", "api_refetch"})
                => /\ req'[w].inst \in urls
                   /\ req'[w].inst.created_by = req'[w].user
             /\ (req[w].op \in {"edit", "delete", "api_update"} /\ pc'[w] # pc[w])
                => \A u \in urls :
                      u.created_by # req[w].user
                      => /\ u \in urls'
                         /\ \A c \in clicks : c.url = u.id => c \in clicks'
       /\ (AnswersAtOnce("edit") \/ AnswersAtOnce("delete") \/ AnswersAtOnce("api_update"))
          => (resp'.kind = "NotFound" /\ resp'.status = 404 /\ db' = db)
       /\ ReadAnswered({"Stats", "Clicks", "List", "NotFound"})
          => /\ db' = db
             /\ resp'.kind \in {"Stats", "Clicks"}
                => \E u \in urls :
                      /\ u.id = resp'.id /\ u.short_code = resp'.code
                      /\ u.created_by = resp'.user
             /\ resp'.kind = "Clicks"
                => \A c \in resp'.body : c.url = resp'.id
             /\ resp'.kind = "List"
                => \A u \in resp'.body : u.created_by = resp'.user
             /\ (/\ resp'.op \in {"stats", "analytics", "clicks"}
                 /\ \A u \in urls : u.short_code = resp'.code => u.created_by # resp'.user)
                => (resp'.kind = "NotFound" /\ resp'.status = 404
                      /\ resp'.id = 0 /\ resp'.body = <<>>)]_vars

\* bob has asked for the statistics of alice's link, which has a Click, and
\* was answered 404.
C40_Witness ==
    /\ resp.op = "stats" /\ resp.user = "bob" /\ resp.kind = "NotFound"
    /\ \E u \in urls :
          /\ u.short_code = resp.code /\ u.created_by = "alice"
          /\ \E c \in clicks : c.url = u.id

=============================================================================
